---- MODULE Spec2Model ----
(***************************************************************************)
(* Model of the shop API (src/app.py): four SQLite tables and the Flask    *)
(* request handlers that read and write them.                              *)
(*                                                                         *)
(* Every handler runs its statements inside `with connect_db() as conn:`.  *)
(* The sqlite3 connection context manager COMMITs when the block is left   *)
(* without an exception -- a `return` inside the block included -- and     *)
(* ROLLs BACK when an exception leaves the block.  A handler is therefore  *)
(* an operator from the store before the request to the committed store    *)
(* after it and the response.  Spec executes the requests one after        *)
(* another; SpecConcurrent interleaves the SQL statements of requests that *)
(* are served at the same time, each on its own connection.                *)
(*                                                                         *)
(* Columns that no handler ever reads back into a decision (products.image *)
(* and products.description, orders.order_date) are left out of the rows.  *)
(***************************************************************************)
EXTENDS Integers, Sequences, FiniteSets, TLC

VARIABLES products, customers, orders, order_details, sqlite_sequence, last, served,
          dirty, conn

vars == <<products, customers, orders, order_details, sqlite_sequence, last, served,
          dirty, conn>>

(***************************************************************************)
(* Bounds of the model: the AUTOINCREMENT counters stop at these values, a *)
(* request carries at most MaxItems line items, and a run serves at most   *)
(* MaxRequests requests; at most MaxConnections requests are in flight at  *)
(* the same time.                                                          *)
(***************************************************************************)
MaxProductId == 3
MaxCustomerId == 2
MaxOrderId == 2
MaxDetailId == 3
MaxItems == 2
MaxRequests == 5
MaxConnections == 2

(***************************************************************************)
(* Values the requests are drawn from.                                     *)
(***************************************************************************)
ProductNames == {"X"}
ProductPrices == {100, 200}
CustomerNames == {"A"}
CustomerPhones == {"123"}
ItemProductIds == {1, 2}
ItemAmounts == {<<2, 100>>, <<1, 0>>}
ClientTotals == {0, 500}

ProductKeys == {"name", "price", "image", "description"}
CustomerKeys == {"name", "phone"}
ItemKeys == {"product_id", "quantity", "price"}

(***************************************************************************)
(* The store: the four tables of init_db and SQLite's AUTOINCREMENT        *)
(* bookkeeping.  A table is the set of its rows.                           *)
(***************************************************************************)
Store ==
  [products |-> products, customers |-> customers, orders |-> orders,
   order_details |-> order_details, sqlite_sequence |-> sqlite_sequence]

init_db ==
  [products |-> {}, customers |-> {}, orders |-> {}, order_details |-> {},
   sqlite_sequence |-> [products |-> 0, customers |-> 0, orders |-> 0, order_details |-> 0]]

(***************************************************************************)
(* Requests and responses.  `keys` is the set of keys present in the JSON  *)
(* body; a key that is absent carries the default value below.             *)
(***************************************************************************)
NoData ==
  [keys |-> {}, customer_id |-> 0, total |-> 0, products |-> <<>>,
   name |-> "", phone |-> "", price |-> 0]

NoBody ==
  [id |-> 0, total |-> 0, customer_id |-> 0, details |-> <<>>,
   orders_fixed |-> <<>>, count |-> 0]

Reply(s, status, body) == [store |-> s, status |-> status, body |-> body]

(***************************************************************************)
(* A connection, as connect_db() opens one for every request: the request  *)
(* it serves, the statement it executes next (pc), whether it has a write  *)
(* transaction open (tx) and, if so, its uncommitted view of the tables    *)
(* (work), the local variables of the handler, and the response.           *)
(***************************************************************************)
Connections == 1..MaxConnections

connect_db ==
  [op |-> "idle", id |-> 0, data |-> NoData, pc |-> "idle", tx |-> FALSE,
   work |-> init_db, i |-> 0, order_id |-> 0, total |-> 0, calculated_total |-> 0,
   zero_total_orders |-> <<>>, updated_count |-> 0, status |-> 0, error |-> ""]

(***************************************************************************)
(* SQL statements shared by the handlers.                                  *)
(***************************************************************************)
\* Variant of customer_exists: the lookup always finds a row.
customer_exists_unchecked(s, id) == TRUE

\* SELECT ... WHERE id = ? followed by fetchone(): is there such a row?
customer_exists(s, id) == \E c \in s.customers : c.id = id
product_exists(s, id) == \E p \in s.products : p.id = id
order_exists(s, id) == \E o \in s.orders : o.id = id

\* The rows of a result set in rowid order, as fetchall() returns them.
RECURSIVE fetchall(_)
fetchall(rows) ==
  IF rows = {} THEN <<>>
  ELSE LET r == CHOOSE x \in rows : \A y \in rows : x.id <= y.id
       IN <<r>> \o fetchall(rows \ {r})

\* Variant of order_details_fk_ok: the connection did not run the PRAGMA.
order_details_fk_off(s, order_id, product_id) == TRUE

\* FOREIGN KEY clauses of order_details, enforced on the connections that
\* ran PRAGMA foreign_keys = ON.
order_details_fk_ok(s, order_id, product_id) ==
  order_exists(s, order_id) /\ product_exists(s, product_id)

\* FOREIGN KEY clause of orders.
orders_fk_ok(s, customer_id) == customer_exists(s, customer_id)

(***************************************************************************)
(* /init-sample-data                                                       *)
(***************************************************************************)
sample_products ==
  << [name |-> "iPhone 14 Pro Max", price |-> 27990000],
     [name |-> "Samsung Galaxy S23 Ultra", price |-> 23990000],
     [name |-> "Xiaomi 13 Pro", price |-> 19990000] >>

\* conn.executemany('INSERT INTO products ...', products)
insert_sample_products(s) ==
  LET n == s.sqlite_sequence.products
      rows == { [id |-> n + i, name |-> sample_products[i].name,
                 price |-> sample_products[i].price] : i \in 1..Len(sample_products) }
  IN [s EXCEPT !.products = @ \cup rows,
               !.sqlite_sequence.products = n + Len(sample_products)]

\* Served alone: the four DELETEs of the script, then the INSERTs.
init_sample_data(s) ==
  Reply(insert_sample_products([s EXCEPT !.order_details = {}, !.orders = {},
                                         !.customers = {}, !.products = {}]),
        200, [NoBody EXCEPT !.count = Len(sample_products)])

(***************************************************************************)
(* Products                                                                *)
(***************************************************************************)
create_product(s, data) ==
  IF ~(ProductKeys \subseteq data.keys)
  THEN Reply(s, 500, NoBody)                       \* KeyError, rolled back
  ELSE LET product_id == s.sqlite_sequence.products + 1
       IN Reply([s EXCEPT !.products = @ \cup {[id |-> product_id, name |-> data.name,
                                                price |-> data.price]},
                          !.sqlite_sequence.products = product_id],
                201, [NoBody EXCEPT !.id = product_id])

update_product(s, id, data) ==
  IF ~(ProductKeys \subseteq data.keys)
  THEN Reply(s, 500, NoBody)
  ELSE IF ~product_exists(s, id)
  THEN Reply(s, 404, NoBody)                       \* rowcount = 0
  ELSE Reply([s EXCEPT !.products =
                 { IF p.id = id THEN [p EXCEPT !.name = data.name, !.price = data.price]
                   ELSE p : p \in @ }],
             200, NoBody)

\* Variant of product_order_details_count: the count filters on order_id.
product_order_details_count_by_order(s, id) ==
  Cardinality({ d \in s.order_details : d.order_id = id })

\* SELECT COUNT(*) FROM order_details WHERE product_id = ?
product_order_details_count(s, id) ==
  Cardinality({ d \in s.order_details : d.product_id = id })

delete_product(s, id) ==
  IF product_order_details_count(s, id) > 0
  THEN Reply(s, 400, NoBody)
  ELSE IF ~product_exists(s, id)
  THEN Reply(s, 404, NoBody)                       \* rowcount = 0
  ELSE Reply([s EXCEPT !.products = { p \in @ : p.id # id }], 200, NoBody)

(***************************************************************************)
(* Customers                                                               *)
(***************************************************************************)
create_customer(s, data) ==
  IF ~(CustomerKeys \subseteq data.keys)
  THEN Reply(s, 400, NoBody)                       \* "Missing name or phone"
  ELSE LET customer_id == s.sqlite_sequence.customers + 1
       IN Reply([s EXCEPT !.customers = @ \cup {[id |-> customer_id, name |-> data.name,
                                                 phone |-> data.phone]},
                          !.sqlite_sequence.customers = customer_id],
                201, [NoBody EXCEPT !.id = customer_id])

update_customer(s, id, data) ==
  IF ~(CustomerKeys \subseteq data.keys)
  THEN Reply(s, 500, NoBody)
  ELSE IF ~customer_exists(s, id)
  THEN Reply(s, 404, NoBody)
  ELSE Reply([s EXCEPT !.customers =
                 { IF c.id = id THEN [c EXCEPT !.name = data.name, !.phone = data.phone]
                   ELSE c : c \in @ }],
             200, NoBody)

\* Variant of customer_orders_count: the count filters on the order's id.
customer_orders_count_by_id(s, id) ==
  Cardinality({ o \in s.orders : o.id = id })

\* SELECT COUNT(*) FROM orders WHERE customer_id = ?
customer_orders_count(s, id) ==
  Cardinality({ o \in s.orders : o.customer_id = id })

delete_customer(s, id) ==
  IF customer_orders_count(s, id) > 0
  THEN Reply(s, 400, NoBody)
  ELSE IF ~customer_exists(s, id)
  THEN Reply(s, 404, NoBody)
  ELSE Reply([s EXCEPT !.customers = { c \in @ : c.id # id }], 200, NoBody)

(***************************************************************************)
(* Orders                                                                  *)
(***************************************************************************)
\* Variant of order_total: only the first item is counted.
order_total_first_item(items) ==
  IF items = <<>> THEN 0 ELSE Head(items).price * Head(items).quantity

\* total = 0; for product in data['products']: total += price * quantity
RECURSIVE order_total(_)
order_total(items) ==
  IF items = <<>> THEN 0
  ELSE Head(items).price * Head(items).quantity + order_total(Tail(items))

\* INSERT INTO orders (customer_id, order_date, total) VALUES (?, ?, ?)
insert_order(s, customer_id, total) ==
  LET order_id == s.sqlite_sequence.orders + 1
  IN [s EXCEPT !.orders = @ \cup {[id |-> order_id, customer_id |-> customer_id,
                                   total |-> total]},
               !.sqlite_sequence.orders = order_id]

\* Variant of insert_order_detail: the price column takes the product's
\* current price instead of the price of the request.
insert_order_detail_catalog_price(s, order_id, item) ==
  LET detail_id == s.sqlite_sequence.order_details + 1
      product == CHOOSE p \in s.products : p.id = item.product_id
  IN [s EXCEPT !.order_details = @ \cup {[id |-> detail_id, order_id |-> order_id,
                                          product_id |-> item.product_id,
                                          quantity |-> item.quantity,
                                          price |-> product.price]},
               !.sqlite_sequence.order_details = detail_id]

\* INSERT INTO order_details (order_id, product_id, quantity, price) VALUES (?, ?, ?, ?)
insert_order_detail(s, order_id, item) ==
  LET detail_id == s.sqlite_sequence.order_details + 1
  IN [s EXCEPT !.order_details = @ \cup {[id |-> detail_id, order_id |-> order_id,
                                          product_id |-> item.product_id,
                                          quantity |-> item.quantity,
                                          price |-> item.price]},
               !.sqlite_sequence.order_details = detail_id]

\* The loop over data['products'] of create_order, from item i on.  It ends
\* "done" after the last item, "notfound" at the first item whose product
\* does not exist (a return inside the with block) and "error" on an exception.
RECURSIVE create_order_details(_, _, _, _)
create_order_details(s, order_id, items, i) ==
  IF i > Len(items) THEN [store |-> s, outcome |-> "done"]
  ELSE IF "product_id" \notin items[i].keys THEN [store |-> s, outcome |-> "error"]
  ELSE IF ~product_exists(s, items[i].product_id) THEN [store |-> s, outcome |-> "notfound"]
  ELSE IF ~order_details_fk_ok(s, order_id, items[i].product_id)
  THEN [store |-> s, outcome |-> "error"]
  ELSE create_order_details(insert_order_detail(s, order_id, items[i]), order_id, items, i + 1)

create_order(s, data) ==
  IF "products" \notin data.keys
  THEN Reply(s, 400, NoBody)                       \* "Invalid order data"
  ELSE IF "customer_id" \notin data.keys
  THEN Reply(s, 500, NoBody)                       \* KeyError
  ELSE IF ~customer_exists(s, data.customer_id)
  THEN Reply(s, 404, NoBody)
  ELSE IF \E i \in 1..Len(data.products) : ~({"price", "quantity"} \subseteq data.products[i].keys)
  THEN Reply(s, 500, NoBody)                       \* KeyError while adding up the total
  ELSE LET total == order_total(data.products)
           s1 == insert_order(s, data.customer_id, total)
           order_id == s1.sqlite_sequence.orders
           r == create_order_details(s1, order_id, data.products, 1)
       IN IF ~orders_fk_ok(s, data.customer_id) THEN Reply(s, 500, NoBody)
          ELSE IF r.outcome = "done"
          THEN Reply(r.store, 201, [NoBody EXCEPT !.id = order_id, !.total = total])
          ELSE IF r.outcome = "notfound"
          THEN Reply(r.store, 404, NoBody)         \* leaves the with block by return: COMMIT
          ELSE Reply(s, 500, NoBody)               \* leaves it by exception: ROLLBACK

\* Variant of order_details_joined: the WHERE od.order_id = ? is left out.
order_details_joined_all(s, id) ==
  fetchall({ d \in s.order_details : product_exists(s, d.product_id) })

\* SELECT ... FROM order_details od JOIN products p ON od.product_id = p.id
\* WHERE od.order_id = ?
order_details_joined(s, id) ==
  fetchall({ d \in s.order_details : d.order_id = id /\ product_exists(s, d.product_id) })

\* sum(detail['price'] * detail['quantity'] for detail in details)
RECURSIVE details_total(_)
details_total(details) ==
  IF details = <<>> THEN 0
  ELSE Head(details).price * Head(details).quantity + details_total(Tail(details))

\* Variant of get_order_fixes: the stored total is not compared with 0.
get_order_fixes_any_total(order, details) ==
  details # <<>> /\ details_total(details) > 0

\* Whether get_order rewrites the stored total, given the row and the details read.
get_order_fixes(order, details) ==
  order.total = 0 /\ details # <<>> /\ details_total(details) > 0

\* Variant of update_order_total: the UPDATE is not issued.
update_order_total_skipped(s, id, total) == s

\* UPDATE orders SET total = ? WHERE id = ?
update_order_total(s, id, total) ==
  [s EXCEPT !.orders = { IF o.id = id THEN [o EXCEPT !.total = total] ELSE o : o \in @ }]

\* The key/value pairs of a detail row that the claims speak of.
detail_view(d) == [product_id |-> d.product_id, quantity |-> d.quantity, price |-> d.price]

get_order(s, id) ==
  LET found == { o \in s.orders : o.id = id /\ customer_exists(s, o.customer_id) }
  IN IF found = {} THEN Reply(s, 404, NoBody)
     ELSE LET order == CHOOSE o \in found : TRUE
              details == order_details_joined(s, id)
              view == [i \in 1..Len(details) |-> detail_view(details[i])]
              body == [NoBody EXCEPT !.id = id, !.customer_id = order.customer_id,
                                     !.total = order.total, !.details = view]
          IN IF get_order_fixes(order, details)
             THEN Reply(update_order_total(s, id, details_total(details)), 200,
                        [body EXCEPT !.total = details_total(details)])
             ELSE Reply(s, 200, body)

\* Variant of update_order_row: the total is recomputed from the order's
\* line items instead of being taken from the request.
update_order_row_recomputed(s, id, customer_id, total) ==
  [s EXCEPT !.orders = { IF o.id = id
                         THEN [o EXCEPT !.customer_id = customer_id,
                                        !.total = details_total(fetchall(
                                           { d \in s.order_details : d.order_id = id }))]
                         ELSE o : o \in @ }]

\* UPDATE orders SET customer_id = ?, total = ? WHERE id = ?
update_order_row(s, id, customer_id, total) ==
  [s EXCEPT !.orders = { IF o.id = id THEN [o EXCEPT !.customer_id = customer_id,
                                                     !.total = total]
                         ELSE o : o \in @ }]

\* Variant of delete_order_details: the DELETE is not issued.
delete_order_details_skipped(s, id) == s

\* DELETE FROM order_details WHERE order_id = ?
delete_order_details(s, id) ==
  [s EXCEPT !.order_details = { d \in @ : d.order_id # id }]

\* The loop over data['products'] of update_order, from item i on.
RECURSIVE update_order_details(_, _, _, _)
update_order_details(s, id, items, i) ==
  IF i > Len(items) THEN [store |-> s, outcome |-> "done"]
  ELSE IF "product_id" \notin items[i].keys THEN [store |-> s, outcome |-> "error"]
  ELSE IF ~product_exists(s, items[i].product_id) THEN [store |-> s, outcome |-> "notfound"]
  ELSE IF ~({"quantity", "price"} \subseteq items[i].keys) THEN [store |-> s, outcome |-> "error"]
  ELSE IF ~order_details_fk_ok(s, id, items[i].product_id)
  THEN [store |-> s, outcome |-> "error"]
  ELSE update_order_details(insert_order_detail(s, id, items[i]), id, items, i + 1)

\* Variant of update_order: an exception in the item loop does not roll the
\* transaction back.
update_order_commit_on_error(s, id, data) ==
  IF ~order_exists(s, id) THEN Reply(s, 404, NoBody)
  ELSE IF "customer_id" \in data.keys /\ ~customer_exists(s, data.customer_id)
  THEN Reply(s, 404, NoBody)
  ELSE IF "customer_id" \in data.keys /\ "total" \notin data.keys
  THEN Reply(s, 500, NoBody)
  ELSE LET s1 == IF "customer_id" \in data.keys
                 THEN update_order_row(s, id, data.customer_id, data.total)
                 ELSE s
       IN IF "products" \notin data.keys THEN Reply(s1, 200, NoBody)
          ELSE LET r == update_order_details(delete_order_details(s1, id), id,
                                             data.products, 1)
               IN IF r.outcome = "done" THEN Reply(r.store, 200, NoBody)
                  ELSE IF r.outcome = "notfound" THEN Reply(r.store, 404, NoBody)
                  ELSE Reply(r.store, 500, NoBody)

update_order(s, id, data) ==
  IF ~order_exists(s, id) THEN Reply(s, 404, NoBody)
  ELSE IF "customer_id" \in data.keys /\ ~customer_exists(s, data.customer_id)
  THEN Reply(s, 404, NoBody)
  ELSE IF "customer_id" \in data.keys /\ "total" \notin data.keys
  THEN Reply(s, 500, NoBody)                       \* KeyError
  ELSE LET s1 == IF "customer_id" \in data.keys
                 THEN update_order_row(s, id, data.customer_id, data.total)
                 ELSE s
       IN IF "products" \notin data.keys THEN Reply(s1, 200, NoBody)
          ELSE LET r == update_order_details(delete_order_details(s1, id), id,
                                             data.products, 1)
               IN IF r.outcome = "done" THEN Reply(r.store, 200, NoBody)
                  ELSE IF r.outcome = "notfound"
                  THEN Reply(r.store, 404, NoBody) \* return inside the with block: COMMIT
                  ELSE Reply(s, 500, NoBody)       \* exception: ROLLBACK

\* Variant of delete_order: DELETE FROM order_details without its WHERE.
delete_order_all_details(s, id) ==
  IF ~order_exists(s, id) THEN Reply(s, 404, NoBody)
  ELSE Reply([s EXCEPT !.order_details = {}, !.orders = { o \in @ : o.id # id }],
             200, NoBody)

delete_order(s, id) ==
  IF ~order_exists(s, id) THEN Reply(s, 404, NoBody)
  ELSE LET s1 == delete_order_details(s, id)
       IN IF \E d \in s1.order_details : d.order_id = id
          THEN Reply(s, 500, NoBody)               \* FOREIGN KEY constraint failed
          ELSE Reply([s1 EXCEPT !.orders = { o \in @ : o.id # id }], 200, NoBody)

(***************************************************************************)
(* /fix-orders-with-zero-total                                             *)
(***************************************************************************)
\* SELECT id FROM orders WHERE total = 0
zero_total_orders(s) ==
  LET rows == fetchall({ o \in s.orders : o.total = 0 })
  IN [i \in 1..Len(rows) |-> rows[i].id]

\* Variant of calculated_total: SUM(price), the quantity left out.
calculated_total_of_prices(s, order_id) ==
  details_total(fetchall({ [d EXCEPT !.quantity = 1] :
                           d \in { x \in s.order_details : x.order_id = order_id } }))

\* SELECT SUM(quantity * price) FROM order_details WHERE order_id = ?, "or 0"
calculated_total(s, order_id) ==
  details_total(fetchall({ d \in s.order_details : d.order_id = order_id }))

\* The loop over zero_total_orders, from position i on; n counts the updates.
RECURSIVE fix_loop(_, _, _, _)
fix_loop(s, ids, i, n) ==
  IF i > Len(ids) THEN [store |-> s, updated_count |-> n]
  ELSE IF calculated_total(s, ids[i]) > 0
  THEN fix_loop(update_order_total(s, ids[i], calculated_total(s, ids[i])), ids, i + 1, n + 1)
  ELSE fix_loop(s, ids, i + 1, n)

fix_orders_with_zero_total(s) ==
  LET ids == zero_total_orders(s)
      r == fix_loop(s, ids, 1, 0)
  IN Reply(r.store, 200, [NoBody EXCEPT !.orders_fixed = ids,
                                        !.count = r.updated_count])

(***************************************************************************)
(* The requests the clients send.                                          *)
(***************************************************************************)
ProductIds == 1..MaxProductId
CustomerIds == 1..MaxCustomerId
OrderIds == 1..MaxOrderId

\* Line items of a request body: the complete ones and one without a
\* product_id.
Items ==
  { [keys |-> ItemKeys, product_id |-> p, quantity |-> a[1], price |-> a[2]] :
      p \in ItemProductIds, a \in ItemAmounts }
  \cup {[keys |-> {"quantity", "price"}, product_id |-> 0, quantity |-> 1, price |-> 100]}

ItemLists == UNION { [1..n -> Items] : n \in 0..MaxItems }

ProductData ==
  { [NoData EXCEPT !.keys = ProductKeys, !.name = n, !.price = p] :
      n \in ProductNames, p \in ProductPrices }
  \cup { [NoData EXCEPT !.keys = ProductKeys \ {"price"}, !.name = n] : n \in ProductNames }

CustomerData ==
  { [NoData EXCEPT !.keys = CustomerKeys, !.name = n, !.phone = p] :
      n \in CustomerNames, p \in CustomerPhones }
  \cup { [NoData EXCEPT !.keys = {"name"}, !.name = n] : n \in CustomerNames }

\* Bodies of POST /orders: with and without a client-side total, without a
\* customer_id, without products.
CreateOrderKeySets ==
  { {"customer_id", "total", "products"}, {"customer_id", "products"},
    {"products"}, {"customer_id", "total"} }

\* Bodies of PUT /orders/{id}: both parts, either part, a customer_id
\* without a total, neither part.
UpdateOrderKeySets ==
  { {"customer_id", "total", "products"}, {"customer_id", "total"},
    {"products"}, {"customer_id"}, {} }

OrderBodies ==
  [keys : CreateOrderKeySets \cup UpdateOrderKeySets, customer_id : CustomerIds,
   total : ClientTotals, products : ItemLists]

\* A body as the handlers see it: an absent key carries the default value.
OrderData ==
  { [NoData EXCEPT !.keys = b.keys,
                   !.customer_id = IF "customer_id" \in b.keys THEN b.customer_id ELSE 0,
                   !.total = IF "total" \in b.keys THEN b.total ELSE 0,
                   !.products = IF "products" \in b.keys THEN b.products ELSE <<>>] :
      b \in OrderBodies }

\* Line items that lack one of the required keys.
IncompleteItems ==
  { [keys |-> ItemKeys \ {k},
     product_id |-> IF k = "product_id" THEN 0 ELSE 1,
     quantity |-> IF k = "quantity" THEN 0 ELSE 1,
     price |-> IF k = "price" THEN 0 ELSE 100] : k \in ItemKeys }

\* Bodies whose first item is complete and whose second item is not.
MidwayFailureData ==
  { [NoData EXCEPT !.keys = ks,
                   !.customer_id = IF "customer_id" \in ks THEN c ELSE 0,
                   !.total = IF "total" \in ks THEN t ELSE 0,
                   !.products = <<first, second>>] :
      ks \in { {"customer_id", "total", "products"}, {"customer_id", "products"},
               {"products"} },
      c \in CustomerIds, t \in ClientTotals,
      first \in { item \in Items : item.keys = ItemKeys }, second \in IncompleteItems }

(***************************************************************************)
(* The state machine: one action per request handler.  `last` records the  *)
(* route and path id of the request served last, the response it got and   *)
(* whether the committed store differs from the one before the request;    *)
(* `served` counts the requests; `dirty` tells whether some request so far *)
(* was answered with an error status after its writes were committed.      *)
(***************************************************************************)
Request(op, id, data) == [op |-> op, id |-> id, data |-> data]

Serve(req, r) ==
  /\ served < MaxRequests
  /\ products' = r.store.products
  /\ customers' = r.store.customers
  /\ orders' = r.store.orders
  /\ order_details' = r.store.order_details
  /\ sqlite_sequence' = r.store.sqlite_sequence
  /\ last' = [op |-> req.op, id |-> req.id, status |-> r.status, body |-> r.body,
              changed |-> (r.store # Store)]
  /\ served' = served + 1
  /\ dirty' = (dirty \/ (r.status \notin {200, 201} /\ r.store # Store))
  /\ UNCHANGED conn

Init ==
  /\ products = init_db.products
  /\ customers = init_db.customers
  /\ orders = init_db.orders
  /\ order_details = init_db.order_details
  /\ sqlite_sequence = init_db.sqlite_sequence
  /\ last = [op |-> "init_db", id |-> 0, status |-> 0, body |-> NoBody, changed |-> FALSE]
  /\ served = 0
  /\ dirty = FALSE
  /\ conn = [c \in Connections |-> connect_db]

InitSampleData ==
  /\ sqlite_sequence.products + Len(sample_products) <= MaxProductId
  /\ Serve(Request("init_sample_data", 0, NoData), init_sample_data(Store))

CreateProduct ==
  /\ sqlite_sequence.products < MaxProductId
  /\ \E data \in ProductData :
       Serve(Request("create_product", 0, data), create_product(Store, data))

UpdateProduct ==
  \E id \in ProductIds, data \in ProductData :
    Serve(Request("update_product", id, data), update_product(Store, id, data))

DeleteProduct ==
  \E id \in ProductIds :
    Serve(Request("delete_product", id, NoData), delete_product(Store, id))

CreateCustomer ==
  /\ sqlite_sequence.customers < MaxCustomerId
  /\ \E data \in CustomerData :
       Serve(Request("create_customer", 0, data), create_customer(Store, data))

UpdateCustomer ==
  \E id \in CustomerIds, data \in CustomerData :
    Serve(Request("update_customer", id, data), update_customer(Store, id, data))

DeleteCustomer ==
  \E id \in CustomerIds :
    Serve(Request("delete_customer", id, NoData), delete_customer(Store, id))

CreateOrder ==
  /\ sqlite_sequence.orders < MaxOrderId
  /\ \E data \in OrderData :
       /\ data.keys \in CreateOrderKeySets
       /\ sqlite_sequence.order_details + Len(data.products) <= MaxDetailId
       /\ Serve(Request("create_order", 0, data), create_order(Store, data))

GetOrder ==
  \E id \in OrderIds :
    Serve(Request("get_order", id, NoData), get_order(Store, id))

UpdateOrder ==
  \E id \in OrderIds, data \in OrderData :
    /\ data.keys \in UpdateOrderKeySets
    /\ sqlite_sequence.order_details + Len(data.products) <= MaxDetailId
    /\ Serve(Request("update_order", id, data), update_order(Store, id, data))

DeleteOrder ==
  \E id \in OrderIds :
    Serve(Request("delete_order", id, NoData), delete_order(Store, id))

FixOrdersWithZeroTotal ==
  Serve(Request("fix_orders_with_zero_total", 0, NoData), fix_orders_with_zero_total(Store))

Next ==
  \/ InitSampleData
  \/ CreateProduct
  \/ UpdateProduct
  \/ DeleteProduct
  \/ CreateCustomer
  \/ UpdateCustomer
  \/ DeleteCustomer
  \/ CreateOrder
  \/ GetOrder
  \/ UpdateOrder
  \/ DeleteOrder
  \/ FixOrdersWithZeroTotal

Spec == Init /\ [][Next]_vars

(***************************************************************************)
(* Requests served at the same time.  Every request has a connection of    *)
(* its own and executes its SQL statements one at a time; the statements   *)
(* of different connections interleave.  SQLite semantics as the sqlite3   *)
(* module uses it: a SELECT outside a transaction reads the committed      *)
(* tables; the first INSERT, UPDATE or DELETE of a connection opens its    *)
(* write transaction, which needs the database's write lock: while another *)
(* connection holds the lock the statement waits and, when the wait times  *)
(* out, raises "database is locked"; inside its transaction a connection   *)
(* reads its own uncommitted rows; leaving the with block by return        *)
(* COMMITs, leaving it by exception ROLLs BACK; the statements of an       *)
(* executescript are each committed on their own.  Foreign keys are        *)
(* checked only by the handlers that run PRAGMA foreign_keys = ON.         *)
(***************************************************************************)
View(c) == IF conn[c].tx THEN conn[c].work ELSE Store

LockFree(c) == \A d \in Connections \ {c} : ~conn[d].tx

\* A return: inside the with block, so a COMMIT follows if a transaction is open.
Exit(r, status) ==
  [r EXCEPT !.pc = IF r.tx THEN "commit" ELSE "done", !.status = status]

\* An exception reaches `except Exception as e`: ROLLBACK, status 500.
Raise(r, error) ==
  [r EXCEPT !.pc = "done", !.status = 500, !.error = error, !.tx = FALSE,
            !.work = init_db]

\* str(KeyError): the first of the keys, in the order in which the handler
\* reads them, that the item lacks.
missing_key(item, keys) ==
  LET k == CHOOSE i \in 1..Len(keys) :
             /\ keys[i] \notin item.keys
             /\ \A j \in 1..(i - 1) : keys[j] \in item.keys
  IN IF keys[k] = "price" THEN "'price'"
     ELSE IF keys[k] = "quantity" THEN "'quantity'"
     ELSE "'product_id'"

\* The first item of the list that lacks a price or a quantity.
first_incomplete(items) ==
  items[CHOOSE i \in 1..Len(items) :
          /\ ~({"price", "quantity"} \subseteq items[i].keys)
          /\ \A j \in 1..(i - 1) : {"price", "quantity"} \subseteq items[j].keys]

\* An INSERT, UPDATE or DELETE whose result is the tables w.
Write(r, w) == [r EXCEPT !.tx = TRUE, !.work = w]

\* Connection c executes the statement at pc and becomes r.
Step(c, pc, r) ==
  /\ conn[c].pc = pc
  /\ conn' = [conn EXCEPT ![c] = r]
  /\ UNCHANGED <<products, customers, orders, order_details, sqlite_sequence,
                 last, served, dirty>>

\* The same for a statement that writes.
WriteStep(c, pc, r) == LockFree(c) /\ Step(c, pc, r)

\* A statement of conn.executescript(...): it runs outside any transaction
\* of the sqlite3 module, so SQLite commits it at once; s is the result.
ScriptStep(c, pc, s, r) ==
  /\ conn[c].pc = pc
  /\ LockFree(c)
  /\ products' = s.products
  /\ customers' = s.customers
  /\ orders' = s.orders
  /\ order_details' = s.order_details
  /\ sqlite_sequence' = s.sqlite_sequence
  /\ conn' = [conn EXCEPT ![c] = r]
  /\ UNCHANGED <<last, served, dirty>>

\* The store the concurrent requests start from, built by six requests:
\* two customers, two products, an order of customer 1 without items, and
\* an update that gives it the line item (product 1, 2 x 100); its stored
\* total is still 0.
seed_item(product_id) ==
  [keys |-> ItemKeys, product_id |-> product_id, quantity |-> 2, price |-> 100]

Seeded ==
  LET customer == [NoData EXCEPT !.keys = CustomerKeys, !.name = "A", !.phone = "123"]
      product == [NoData EXCEPT !.keys = ProductKeys, !.name = "X", !.price = 100]
      s1 == create_customer(init_db, customer).store
      s2 == create_customer(s1, customer).store
      s3 == create_product(s2, product).store
      s4 == create_product(s3, product).store
      s5 == create_order(s4, [NoData EXCEPT !.keys = {"customer_id", "products"},
                                            !.customer_id = 1]).store
  IN update_order(s5, 1, [NoData EXCEPT !.keys = {"products"},
                                        !.products = <<seed_item(1)>>]).store

\* The requests that arrive concurrently.
ConcurrentOrderData ==
  { [NoData EXCEPT !.keys = {"customer_id", "products"}, !.customer_id = c,
                   !.products = <<seed_item(p)>>] : c \in {1, 2}, p \in {1, 2} }

ConcurrentUpdateData ==
  { [NoData EXCEPT !.keys = {"customer_id", "total", "products"}, !.customer_id = 2,
                   !.total = 500, !.products = <<seed_item(2)>>],
    [NoData EXCEPT !.keys = {"customer_id", "total"}, !.customer_id = 1, !.total = 500],
    [NoData EXCEPT !.keys = {"products"}, !.products = <<seed_item(2)>>] }

ConcurrentRequests ==
  { Request("delete_product", id, NoData) : id \in {1, 2} }
  \cup { Request("delete_customer", id, NoData) : id \in {1, 2} }
  \cup { Request("create_order", 0, data) : data \in ConcurrentOrderData }
  \cup { Request("update_order", 1, data) : data \in ConcurrentUpdateData }
  \cup { Request("delete_order", 1, NoData), Request("get_order", 1, NoData),
         Request("fix_orders_with_zero_total", 0, NoData),
         Request("init_sample_data", 0, NoData) }

\* The first statement of each handler.
first_statement ==
  [op \in { req.op : req \in ConcurrentRequests } |->
     CASE op = "delete_product" -> "delete_product_count"
       [] op = "delete_customer" -> "delete_customer_count"
       [] op = "create_order" -> "create_order_select_customer"
       [] op = "update_order" -> "update_order_select_order"
       [] op = "delete_order" -> "delete_order_select_order"
       [] op = "get_order" -> "get_order_select_order"
       [] op = "fix_orders_with_zero_total" -> "fix_select_zero_total"
       [] op = "init_sample_data" -> "init_sample_data_delete_order_details"]

\* Line items that the requests in flight on the connections S may still insert.
RECURSIVE items_in_flight(_)
items_in_flight(S) ==
  IF S = {} THEN 0
  ELSE LET c == CHOOSE x \in S : TRUE
       IN (IF conn[c].pc \notin {"idle", "done"} THEN Len(conn[c].data.products) ELSE 0)
          + items_in_flight(S \ {c})

ConcurrentInit ==
  /\ products = Seeded.products
  /\ customers = Seeded.customers
  /\ orders = Seeded.orders
  /\ order_details = Seeded.order_details
  /\ sqlite_sequence = Seeded.sqlite_sequence
  /\ last = [op |-> "update_order", id |-> 1, status |-> 200, body |-> NoBody,
             changed |-> TRUE]
  /\ served = 0
  /\ dirty = FALSE
  /\ conn = [c \in Connections |-> connect_db]

\* A request arrives and gets a connection.
Accept ==
  \E c \in Connections : \E req \in ConcurrentRequests :
    /\ req.op = "create_order"
         => sqlite_sequence.orders
              + Cardinality({ d \in Connections : conn[d].op = "create_order"
                                                  /\ conn[d].pc # "done" }) < MaxOrderId
    /\ sqlite_sequence.order_details + items_in_flight(Connections)
         + Len(req.data.products) <= MaxDetailId
    /\ Step(c, "idle", [connect_db EXCEPT !.op = req.op, !.id = req.id,
                                          !.data = req.data,
                                          !.pc = first_statement[req.op]])

\* COMMIT: the rows of the transaction become the committed tables.
Commit ==
  \E c \in Connections :
    /\ conn[c].pc = "commit"
    /\ products' = conn[c].work.products
    /\ customers' = conn[c].work.customers
    /\ orders' = conn[c].work.orders
    /\ order_details' = conn[c].work.order_details
    /\ sqlite_sequence' = conn[c].work.sqlite_sequence
    /\ conn' = [conn EXCEPT ![c] = [@ EXCEPT !.pc = "done", !.tx = FALSE,
                                             !.work = init_db]]
    /\ UNCHANGED <<last, served, dirty>>

\* The statements that may open a write transaction.
first_writes ==
  {"delete_product_delete", "delete_customer_delete", "create_order_insert_order",
   "update_order_update_order", "update_order_delete_details",
   "delete_order_delete_details", "get_order_update_total", "fix_update_total",
   "init_sample_data_delete_order_details", "init_sample_data_delete_orders",
   "init_sample_data_delete_customers", "init_sample_data_delete_products",
   "init_sample_data_insert_products"}

\* sqlite3.OperationalError: database is locked.
DatabaseIsLocked ==
  \E c \in Connections :
    /\ conn[c].pc \in first_writes
    /\ ~conn[c].tx
    /\ ~LockFree(c)
    /\ Step(c, conn[c].pc, Raise(conn[c], "database is locked"))

(***************************************************************************)
(* delete_product and delete_customer, statement by statement.             *)
(***************************************************************************)
DeleteProductCount ==
  \E c \in Connections :
    Step(c, "delete_product_count",
         IF product_order_details_count(View(c), conn[c].id) > 0
         THEN Exit(conn[c], 400)
         ELSE [conn[c] EXCEPT !.pc = "delete_product_delete"])

DeleteProductDelete ==
  \E c \in Connections :
    LET s == View(c)
        r == Write(conn[c], [s EXCEPT !.products = { p \in @ : p.id # conn[c].id }])
    IN WriteStep(c, "delete_product_delete",
                 IF product_exists(s, conn[c].id) THEN Exit(r, 200) ELSE Exit(r, 404))

DeleteCustomerCount ==
  \E c \in Connections :
    Step(c, "delete_customer_count",
         IF customer_orders_count(View(c), conn[c].id) > 0
         THEN Exit(conn[c], 400)
         ELSE [conn[c] EXCEPT !.pc = "delete_customer_delete"])

DeleteCustomerDelete ==
  \E c \in Connections :
    LET s == View(c)
        r == Write(conn[c], [s EXCEPT !.customers = { x \in @ : x.id # conn[c].id }])
    IN WriteStep(c, "delete_customer_delete",
                 IF customer_exists(s, conn[c].id) THEN Exit(r, 200) ELSE Exit(r, 404))

(***************************************************************************)
(* create_order, statement by statement.                                   *)
(***************************************************************************)
CreateOrderSelectCustomer ==
  \E c \in Connections :
    LET data == conn[c].data
    IN Step(c, "create_order_select_customer",
            IF "products" \notin data.keys THEN Exit(conn[c], 400)
            ELSE IF "customer_id" \notin data.keys THEN Raise(conn[c], "'customer_id'")
            ELSE IF ~customer_exists(View(c), data.customer_id) THEN Exit(conn[c], 404)
            ELSE IF \E i \in 1..Len(data.products) :
                      ~({"price", "quantity"} \subseteq data.products[i].keys)
            THEN Raise(conn[c], missing_key(first_incomplete(data.products),
                                            <<"price", "quantity">>))
            ELSE [conn[c] EXCEPT !.total = order_total(data.products),
                                 !.pc = "create_order_insert_order"])

CreateOrderInsertOrder ==
  \E c \in Connections :
    LET data == conn[c].data
        s == View(c)
        w == insert_order(s, data.customer_id, conn[c].total)
    IN WriteStep(c, "create_order_insert_order",
                 IF ~orders_fk_ok(s, data.customer_id)
                 THEN Raise(conn[c], "FOREIGN KEY constraint failed")
                 ELSE LET r == [Write(conn[c], w) EXCEPT !.order_id = w.sqlite_sequence.orders,
                                                         !.i = 1]
                      IN IF data.products = <<>> THEN Exit(r, 201)
                         ELSE [r EXCEPT !.pc = "create_order_select_product"])

CreateOrderSelectProduct ==
  \E c \in Connections :
    LET item == conn[c].data.products[conn[c].i]
    IN Step(c, "create_order_select_product",
            IF "product_id" \notin item.keys THEN Raise(conn[c], "'product_id'")
            ELSE IF ~product_exists(View(c), item.product_id) THEN Exit(conn[c], 404)
            ELSE [conn[c] EXCEPT !.pc = "create_order_insert_detail"])

CreateOrderInsertDetail ==
  \E c \in Connections :
    LET items == conn[c].data.products
        item == items[conn[c].i]
        s == View(c)
    IN WriteStep(c, "create_order_insert_detail",
                 IF ~order_details_fk_ok(s, conn[c].order_id, item.product_id)
                 THEN Raise(conn[c], "FOREIGN KEY constraint failed")
                 ELSE LET r == [Write(conn[c], insert_order_detail(s, conn[c].order_id, item))
                                  EXCEPT !.i = @ + 1]
                      IN IF r.i > Len(items) THEN Exit(r, 201)
                         ELSE [r EXCEPT !.pc = "create_order_select_product"])

(***************************************************************************)
(* update_order, statement by statement.                                   *)
(***************************************************************************)
UpdateOrderSelectOrder ==
  \E c \in Connections :
    LET data == conn[c].data
    IN Step(c, "update_order_select_order",
            IF ~order_exists(View(c), conn[c].id) THEN Exit(conn[c], 404)
            ELSE IF "customer_id" \in data.keys
            THEN [conn[c] EXCEPT !.pc = "update_order_select_customer"]
            ELSE IF "products" \in data.keys
            THEN [conn[c] EXCEPT !.pc = "update_order_delete_details"]
            ELSE Exit(conn[c], 200))

UpdateOrderSelectCustomer ==
  \E c \in Connections :
    LET data == conn[c].data
    IN Step(c, "update_order_select_customer",
            IF ~customer_exists(View(c), data.customer_id) THEN Exit(conn[c], 404)
            ELSE IF "total" \notin data.keys THEN Raise(conn[c], "'total'")
            ELSE [conn[c] EXCEPT !.pc = "update_order_update_order"])

UpdateOrderUpdateOrder ==
  \E c \in Connections :
    LET data == conn[c].data
        s == View(c)
        r == Write(conn[c], update_order_row(s, conn[c].id, data.customer_id, data.total))
    IN WriteStep(c, "update_order_update_order",
                 IF order_exists(s, conn[c].id) /\ ~orders_fk_ok(s, data.customer_id)
                 THEN Raise(conn[c], "FOREIGN KEY constraint failed")
                 ELSE IF "products" \in data.keys
                 THEN [r EXCEPT !.pc = "update_order_delete_details"]
                 ELSE Exit(r, 200))

UpdateOrderDeleteDetails ==
  \E c \in Connections :
    LET r == [Write(conn[c], delete_order_details(View(c), conn[c].id)) EXCEPT !.i = 1]
    IN WriteStep(c, "update_order_delete_details",
                 IF conn[c].data.products = <<>> THEN Exit(r, 200)
                 ELSE [r EXCEPT !.pc = "update_order_select_product"])

UpdateOrderSelectProduct ==
  \E c \in Connections :
    LET item == conn[c].data.products[conn[c].i]
    IN Step(c, "update_order_select_product",
            IF "product_id" \notin item.keys THEN Raise(conn[c], "'product_id'")
            ELSE IF ~product_exists(View(c), item.product_id) THEN Exit(conn[c], 404)
            ELSE IF ~({"quantity", "price"} \subseteq item.keys)
            THEN Raise(conn[c], missing_key(item, <<"quantity", "price">>))
            ELSE [conn[c] EXCEPT !.pc = "update_order_insert_detail"])

UpdateOrderInsertDetail ==
  \E c \in Connections :
    LET items == conn[c].data.products
        item == items[conn[c].i]
        s == View(c)
    IN WriteStep(c, "update_order_insert_detail",
                 IF ~order_details_fk_ok(s, conn[c].id, item.product_id)
                 THEN Raise(conn[c], "FOREIGN KEY constraint failed")
                 ELSE LET r == [Write(conn[c], insert_order_detail(s, conn[c].id, item))
                                  EXCEPT !.i = @ + 1]
                      IN IF r.i > Len(items) THEN Exit(r, 200)
                         ELSE [r EXCEPT !.pc = "update_order_select_product"])

(***************************************************************************)
(* delete_order, statement by statement.                                   *)
(***************************************************************************)
DeleteOrderSelectOrder ==
  \E c \in Connections :
    Step(c, "delete_order_select_order",
         IF ~order_exists(View(c), conn[c].id) THEN Exit(conn[c], 404)
         ELSE [conn[c] EXCEPT !.pc = "delete_order_delete_details"])

DeleteOrderDeleteDetails ==
  \E c \in Connections :
    WriteStep(c, "delete_order_delete_details",
              [Write(conn[c], delete_order_details(View(c), conn[c].id))
                 EXCEPT !.pc = "delete_order_delete_order"])

DeleteOrderDeleteOrder ==
  \E c \in Connections :
    LET s == View(c)
    IN WriteStep(c, "delete_order_delete_order",
                 IF \E d \in s.order_details : d.order_id = conn[c].id
                 THEN Raise(conn[c], "FOREIGN KEY constraint failed")
                 ELSE Exit(Write(conn[c], [s EXCEPT !.orders = { o \in @ : o.id # conn[c].id }]),
                           200))

(***************************************************************************)
(* get_order, statement by statement.                                      *)
(***************************************************************************)
GetOrderSelectOrder ==
  \E c \in Connections :
    LET s == View(c)
        found == { o \in s.orders : o.id = conn[c].id /\ customer_exists(s, o.customer_id) }
    IN Step(c, "get_order_select_order",
            IF found = {} THEN Exit(conn[c], 404)
            ELSE [conn[c] EXCEPT !.total = (CHOOSE o \in found : TRUE).total,
                                 !.pc = "get_order_select_details"])

GetOrderSelectDetails ==
  \E c \in Connections :
    LET details == order_details_joined(View(c), conn[c].id)
    IN Step(c, "get_order_select_details",
            IF get_order_fixes([total |-> conn[c].total], details)
            THEN [conn[c] EXCEPT !.calculated_total = details_total(details),
                                 !.pc = "get_order_update_total"]
            ELSE Exit(conn[c], 200))

GetOrderUpdateTotal ==
  \E c \in Connections :
    WriteStep(c, "get_order_update_total",
              Exit([Write(conn[c], update_order_total(View(c), conn[c].id,
                                                      conn[c].calculated_total))
                      EXCEPT !.total = conn[c].calculated_total], 200))

(***************************************************************************)
(* fix_orders_with_zero_total, statement by statement.                     *)
(***************************************************************************)
\* The loop goes on to its next order id, or the handler returns.
fix_next(r) ==
  IF r.i + 1 > Len(r.zero_total_orders) THEN Exit([r EXCEPT !.i = @ + 1], 200)
  ELSE [r EXCEPT !.i = @ + 1, !.pc = "fix_select_sum"]

FixSelectZeroTotal ==
  \E c \in Connections :
    Step(c, "fix_select_zero_total",
         fix_next([conn[c] EXCEPT !.zero_total_orders = zero_total_orders(View(c))]))

FixSelectSum ==
  \E c \in Connections :
    LET sum == calculated_total(View(c), conn[c].zero_total_orders[conn[c].i])
    IN Step(c, "fix_select_sum",
            IF sum > 0
            THEN [conn[c] EXCEPT !.calculated_total = sum, !.pc = "fix_update_total"]
            ELSE fix_next(conn[c]))

FixUpdateTotal ==
  \E c \in Connections :
    WriteStep(c, "fix_update_total",
              fix_next([Write(conn[c],
                              update_order_total(View(c),
                                                 conn[c].zero_total_orders[conn[c].i],
                                                 conn[c].calculated_total))
                          EXCEPT !.updated_count = @ + 1]))

(***************************************************************************)
(* init_sample_data, statement by statement: the four DELETEs of the       *)
(* script are committed one by one, the INSERTs form one transaction.      *)
(***************************************************************************)
InitSampleDataDeleteOrderDetails ==
  \E c \in Connections :
    ScriptStep(c, "init_sample_data_delete_order_details",
               [Store EXCEPT !.order_details = {}],
               [conn[c] EXCEPT !.pc = "init_sample_data_delete_orders"])

InitSampleDataDeleteOrders ==
  \E c \in Connections :
    ScriptStep(c, "init_sample_data_delete_orders",
               [Store EXCEPT !.orders = {}],
               [conn[c] EXCEPT !.pc = "init_sample_data_delete_customers"])

InitSampleDataDeleteCustomers ==
  \E c \in Connections :
    ScriptStep(c, "init_sample_data_delete_customers",
               [Store EXCEPT !.customers = {}],
               [conn[c] EXCEPT !.pc = "init_sample_data_delete_products"])

InitSampleDataDeleteProducts ==
  \E c \in Connections :
    ScriptStep(c, "init_sample_data_delete_products",
               [Store EXCEPT !.products = {}],
               [conn[c] EXCEPT !.pc = "init_sample_data_insert_products"])

InitSampleDataInsertProducts ==
  \E c \in Connections :
    WriteStep(c, "init_sample_data_insert_products",
              Exit(Write(conn[c], insert_sample_products(View(c))), 200))

NextConcurrent ==
  \/ Accept
  \/ Commit
  \/ DatabaseIsLocked
  \/ DeleteProductCount
  \/ DeleteProductDelete
  \/ DeleteCustomerCount
  \/ DeleteCustomerDelete
  \/ CreateOrderSelectCustomer
  \/ CreateOrderInsertOrder
  \/ CreateOrderSelectProduct
  \/ CreateOrderInsertDetail
  \/ UpdateOrderSelectOrder
  \/ UpdateOrderSelectCustomer
  \/ UpdateOrderUpdateOrder
  \/ UpdateOrderDeleteDetails
  \/ UpdateOrderSelectProduct
  \/ UpdateOrderInsertDetail
  \/ DeleteOrderSelectOrder
  \/ DeleteOrderDeleteDetails
  \/ DeleteOrderDeleteOrder
  \/ GetOrderSelectOrder
  \/ GetOrderSelectDetails
  \/ GetOrderUpdateTotal
  \/ FixSelectZeroTotal
  \/ FixSelectSum
  \/ FixUpdateTotal
  \/ InitSampleDataDeleteOrderDetails
  \/ InitSampleDataDeleteOrders
  \/ InitSampleDataDeleteCustomers
  \/ InitSampleDataDeleteProducts
  \/ InitSampleDataInsertProducts

SpecConcurrent == ConcurrentInit /\ [][NextConcurrent]_vars

(***************************************************************************)
(* Vocabulary of the properties, stated on the tables themselves.          *)
(***************************************************************************)
RECURSIVE SumRows(_)
SumRows(rows) ==
  IF rows = {} THEN 0
  ELSE LET r == CHOOSE x \in rows : TRUE
       IN r.price * r.quantity + SumRows(rows \ {r})

\* The line items of an order in a table of detail rows, and their sum.
LineItems(details, order_id) == { d \in details : d.order_id = order_id }
LineItemsSum(details, order_id) == SumRows(LineItems(details, order_id))

\* Sum of price * quantity over the first n items of a request.
RECURSIVE SumItems(_, _)
SumItems(items, n) ==
  IF n = 0 THEN 0 ELSE items[n].price * items[n].quantity + SumItems(items, n - 1)

CompleteItems(items) == \A i \in 1..Len(items) : items[i].keys = ItemKeys
ProductPresent(id) == \E p \in products : p.id = id
CustomerPresent(id) == \E c \in customers : c.id = id
OrderPresent(id) == \E o \in orders : o.id = id
AllProductsPresent(items) == \A i \in 1..Len(items) : ProductPresent(items[i].product_id)

\* The line items of an order as the list of their (product_id, quantity, price).
StoredItems(details, order_id) ==
  LET rows == fetchall(LineItems(details, order_id))
  IN [i \in 1..Len(rows) |->
        [product_id |-> rows[i].product_id, quantity |-> rows[i].quantity,
         price |-> rows[i].price]]

RequestedItems(items) ==
  [i \in 1..Len(items) |->
     [product_id |-> items[i].product_id, quantity |-> items[i].quantity,
      price |-> items[i].price]]

(***************************************************************************)
(* C1.  POST /orders with an existing customer and items whose products    *)
(* all exist answers 201, and the total in the response and the total of   *)
(* the one new order row both equal the sum of price * quantity over the   *)
(* items of the request, whatever "total" the body carries.                *)
(***************************************************************************)
C1_CreateOrderTotal ==
  \A data \in OrderData :
    ( /\ {"customer_id", "products"} \subseteq data.keys
      /\ CustomerPresent(data.customer_id)
      /\ CompleteItems(data.products)
      /\ AllProductsPresent(data.products) )
    => LET r == create_order(Store, data)
           sum == SumItems(data.products, Len(data.products))
       IN /\ r.status = 201
          /\ r.body.total = sum
          /\ r.store.orders \ orders =
               {[id |-> r.body.id, customer_id |-> data.customer_id, total |-> sum]}

\* An order of two line items was just created; its stored total is the
\* total of the response and is none of the totals a client sends.
C1_Witness ==
  /\ last.op = "create_order" /\ last.status = 201
  /\ last.body.total \notin ClientTotals
  /\ \E o \in orders : o.id = last.body.id /\ o.total = last.body.total
  /\ Cardinality(LineItems(order_details, last.body.id)) = 2

(***************************************************************************)
(* C2.  POST /orders with an existing customer and an item list in which   *)
(* some product id does not exist answers 404 and leaves the orders and    *)
(* the line items as they were.                                            *)
(***************************************************************************)
C2_CreateOrderMissingProductAtomic ==
  \A data \in OrderData :
    ( /\ {"customer_id", "products"} \subseteq data.keys
      /\ CustomerPresent(data.customer_id)
      /\ CompleteItems(data.products)
      /\ ~AllProductsPresent(data.products) )
    => LET r == create_order(Store, data)
       IN /\ r.status = 404
          /\ r.store.orders = orders
          /\ r.store.order_details = order_details

(***************************************************************************)
(* C3.  POST /orders whose customer_id is the id of no customer answers    *)
(* 404 and leaves the store unchanged.                                     *)
(***************************************************************************)
C3_CreateOrderMissingCustomer ==
  \A data \in OrderData :
    ( /\ {"customer_id", "products"} \subseteq data.keys
      /\ ~CustomerPresent(data.customer_id) )
    => LET r == create_order(Store, data)
       IN r.status = 404 /\ r.store = Store

\* A POST /orders was just answered 404 without any write.  (A 404 for a
\* missing product comes after the INSERT of the order row, so this one is
\* the 404 for the customer.)
C3_Witness ==
  /\ last.op = "create_order" /\ last.status = 404 /\ ~last.changed
  /\ products # {}

(***************************************************************************)
(* C4.  PUT /orders/{id} on an existing order, with a line-item list in    *)
(* which some product id does not exist, answers 404 and leaves the        *)
(* order's line items, customer_id and total as they were.                 *)
(***************************************************************************)
C4_UpdateOrderMissingProductAtomic ==
  \A id \in OrderIds : \A data \in OrderData :
    ( /\ OrderPresent(id)
      /\ "products" \in data.keys
      /\ "customer_id" \in data.keys => ("total" \in data.keys /\ CustomerPresent(data.customer_id))
      /\ CompleteItems(data.products)
      /\ ~AllProductsPresent(data.products) )
    => LET r == update_order(Store, id, data)
       IN /\ r.status = 404
          /\ r.store.orders = orders
          /\ r.store.order_details = order_details

(***************************************************************************)
(* C5.  The ids that GET /fix-orders-with-zero-total reports in            *)
(* orders_fixed are exactly the ids of the orders whose row it changed.    *)
(***************************************************************************)
C5_FixReportsChangedOrders ==
  [][ last'.op = "fix_orders_with_zero_total"
      => { last'.body.orders_fixed[i] : i \in 1..Len(last'.body.orders_fixed) }
           = { o.id : o \in orders \ orders' } ]_vars

(***************************************************************************)
(* C6.  GET /fix-orders-with-zero-total sets the total of every order with *)
(* stored total 0 and a positive line-item sum to that sum, and changes    *)
(* no other order, no other field and no other table.                      *)
(***************************************************************************)
C6_FixEffect ==
  [][ last'.op = "fix_orders_with_zero_total"
      => /\ orders' =
              { IF o.total = 0 /\ LineItemsSum(order_details, o.id) > 0
                THEN [o EXCEPT !.total = LineItemsSum(order_details, o.id)]
                ELSE o : o \in orders }
         /\ products' = products
         /\ customers' = customers
         /\ order_details' = order_details ]_vars

\* The batch repair just rewrote a total: some order now has a positive
\* total equal to the sum of its line items.
C6_Witness ==
  /\ last.op = "fix_orders_with_zero_total" /\ last.changed
  /\ \E o \in orders : o.total > 0 /\ o.total = LineItemsSum(order_details, o.id)

(***************************************************************************)
(* C7.  GET /orders/{id} of an order with stored total 0 and a positive    *)
(* line-item sum returns that sum and stores it; retrieving the order once *)
(* more returns the same total and writes nothing.                         *)
(***************************************************************************)
C7_GetOrderRepairs ==
  [][ last'.op = "get_order"
      => /\ \A o \in orders :
              (o.id = last'.id /\ o.total = 0 /\ LineItemsSum(order_details, o.id) > 0)
              => /\ last'.status = 200
                 /\ last'.body.total = LineItemsSum(order_details, o.id)
                 /\ [o EXCEPT !.total = LineItemsSum(order_details, o.id)] \in orders'
         /\ last'.status = 200
              => LET again == get_order(Store', last'.id)
                 IN /\ again.status = 200
                    /\ again.body.total = last'.body.total
                    /\ again.store = Store' ]_vars

\* A retrieval just repaired a zero total.
C7_Witness ==
  /\ last.op = "get_order" /\ last.status = 200 /\ last.changed
  /\ \E o \in orders : o.id = last.id /\ o.total = last.body.total /\ o.total > 0

(***************************************************************************)
(* C8.  DELETE /products/{id}: 400 and nothing changes when some line item *)
(* references the product; otherwise the product row, and only it, is      *)
(* removed when it exists, and the answer is 404 when it does not.         *)
(***************************************************************************)
C8_DeleteProduct ==
  [][ last'.op = "delete_product"
      => IF \E d \in order_details : d.product_id = last'.id
         THEN last'.status = 400 /\ Store' = Store
         ELSE IF ProductPresent(last'.id)
         THEN /\ last'.status = 200
              /\ products' = { p \in products : p.id # last'.id }
              /\ <<customers, orders, order_details>>' = <<customers, orders, order_details>>
         ELSE last'.status = 404 /\ Store' = Store ]_vars

\* A product that line items reference was just refused deletion.
C8_Witness ==
  /\ last.op = "delete_product" /\ last.status = 400
  /\ ProductPresent(last.id)
  /\ \E d \in order_details : d.product_id = last.id

(***************************************************************************)
(* C9.  DELETE /customers/{id}: 400 and nothing changes when some order    *)
(* references the customer; otherwise the customer row, and only it, is    *)
(* removed when it exists, and the answer is 404 when it does not.         *)
(***************************************************************************)
C9_DeleteCustomer ==
  [][ last'.op = "delete_customer"
      => IF \E o \in orders : o.customer_id = last'.id
         THEN last'.status = 400 /\ Store' = Store
         ELSE IF CustomerPresent(last'.id)
         THEN /\ last'.status = 200
              /\ customers' = { c \in customers : c.id # last'.id }
              /\ <<products, orders, order_details>>' = <<products, orders, order_details>>
         ELSE last'.status = 404 /\ Store' = Store ]_vars

\* A customer that orders reference was just refused deletion.
C9_Witness ==
  /\ last.op = "delete_customer" /\ last.status = 400
  /\ CustomerPresent(last.id)
  /\ \E o \in orders : o.customer_id = last.id

(***************************************************************************)
(* C10.  A PUT /orders/{id} that carries a line-item list and is answered  *)
(* 200 leaves, as the line items of that order, exactly the items of the   *)
(* list; none of the order's former rows remains and the line items of     *)
(* every other order are unchanged.                                        *)
(***************************************************************************)
C10_UpdateOrderReplacesItems ==
  \A id \in OrderIds : \A data \in OrderData :
    (OrderPresent(id) /\ "products" \in data.keys)
    => LET r == update_order(Store, id, data)
       IN r.status = 200
          => /\ StoredItems(r.store.order_details, id) = RequestedItems(data.products)
             /\ LineItems(r.store.order_details, id) \cap order_details = {}
             /\ { d \in r.store.order_details : d.order_id # id }
                  = { d \in order_details : d.order_id # id }

\* An order update just replaced line items: the order now holds a row
\* newer than a row of another order, a detail id is missing from the table
\* and no order was ever deleted.
C10_Witness ==
  /\ last.op = "update_order" /\ last.status = 200 /\ last.changed
  /\ Cardinality(orders) = sqlite_sequence.orders
  /\ Cardinality(order_details) < sqlite_sequence.order_details
  /\ \E d \in order_details : \E e \in order_details :
       d.order_id = last.id /\ e.order_id # last.id /\ d.id > e.id

(***************************************************************************)
(* C11.  DELETE /orders/{id} of an existing order answers 200 and leaves   *)
(* neither the order row nor any line item with that order_id, every other *)
(* row of every table being as before; for an id that is no order's it     *)
(* answers 404 and changes nothing.                                        *)
(***************************************************************************)
C11_DeleteOrder ==
  [][ last'.op = "delete_order"
      => IF OrderPresent(last'.id)
         THEN /\ last'.status = 200
              /\ orders' = { o \in orders : o.id # last'.id }
              /\ order_details' = { d \in order_details : d.order_id # last'.id }
              /\ <<products, customers>>' = <<products, customers>>
         ELSE last'.status = 404 /\ Store' = Store ]_vars

\* An order with line items was just deleted while another order keeps its
\* own line items.
C11_Witness ==
  /\ last.op = "delete_order" /\ last.status = 200
  /\ ~OrderPresent(last.id)
  /\ Cardinality(order_details) < sqlite_sequence.order_details
  /\ \E d \in order_details : OrderPresent(d.order_id)

(***************************************************************************)
(* C12.  After a POST /orders that succeeds for customer c and items L, a  *)
(* GET /orders/{id} of the returned id answers 200 with customer_id c, a   *)
(* total equal to the sum of price * quantity over L and, as details, one  *)
(* entry per item of L, in order, with its product_id, quantity and price. *)
(***************************************************************************)
C12_CreateThenGet ==
  \A data \in OrderData :
    LET r == create_order(Store, data)
    IN r.status = 201
       => LET g == get_order(r.store, r.body.id)
          IN /\ g.status = 200
             /\ g.body.id = r.body.id
             /\ g.body.customer_id = data.customer_id
             /\ g.body.total = SumItems(data.products, Len(data.products))
             /\ g.body.details = RequestedItems(data.products)

\* An order of two line items was just created while an older order has
\* line items of its own; reading the new order returns its two items.
C12_Witness ==
  /\ last.op = "create_order" /\ last.status = 201
  /\ \E d \in order_details : d.order_id # last.body.id
  /\ LET g == get_order(Store, last.body.id)
     IN g.status = 200 /\ Len(g.body.details) = 2 /\ g.body.total = last.body.total

(***************************************************************************)
(* C13.  In every state that a sequence of requests reaches, failed        *)
(* requests and /init-sample-data included, every line item's order_id is  *)
(* the id of an existing order and its product_id the id of an existing    *)
(* product.                                                                *)
(***************************************************************************)
C13_LineItemReferences ==
  \A d \in order_details : OrderPresent(d.order_id) /\ ProductPresent(d.product_id)

\* A request for an order was just answered 404 after it had written, a
\* product was deleted at some time, and line items are stored.
C13_Witness ==
  /\ last.op \in {"create_order", "update_order"} /\ last.status = 404 /\ last.changed
  /\ Cardinality(products) < sqlite_sequence.products
  /\ order_details # {}

(***************************************************************************)
(* C14.  In every state that a sequence of requests reaches, every stored  *)
(* order's customer_id is the id of an existing customer.                  *)
(***************************************************************************)
C14_OrderReferences ==
  \A o \in orders : CustomerPresent(o.customer_id)

\* A customer without orders was just deleted while another customer's
\* order is stored.
C14_Witness ==
  /\ last.op = "delete_customer" /\ last.status = 200
  /\ orders # {}

(***************************************************************************)
(* C15.  As claimed: in any state reached by order creations, updates and  *)
(* deletions, GET /fix-orders-with-zero-total leaves every order with a    *)
(* stored total equal to the sum of price * quantity over its line items.  *)
(* The statement is limited to runs in which no request failed after       *)
(* writing, so that a violation does not rest on such a request.           *)
(***************************************************************************)
C15_FixRestoresAllTotals ==
  [][ (last'.op = "fix_orders_with_zero_total" /\ ~dirty)
      => \A o \in orders' : o.total = LineItemsSum(order_details', o.id) ]_vars

(***************************************************************************)
(* C15, amended.  After GET /fix-orders-with-zero-total no order has a     *)
(* stored total of 0 together with line items of a positive sum, and every *)
(* order whose stored total was not 0 is unchanged -- whether or not that  *)
(* total equals the sum of its line items.                                 *)
(***************************************************************************)
C15_FixRestoresZeroTotals ==
  [][ last'.op = "fix_orders_with_zero_total"
      => /\ \A o \in orders' : o.total = 0 => ~(LineItemsSum(order_details', o.id) > 0)
         /\ \A o \in orders : o.total # 0 => o \in orders' ]_vars

\* The batch repair just ran, no request before it failed after writing,
\* and an order with line items is left whose nonzero total is not their sum.
C15_Witness ==
  /\ last.op = "fix_orders_with_zero_total" /\ ~dirty
  /\ order_details # {}
  /\ \E o \in orders : o.total # 0 /\ o.total # LineItemsSum(order_details, o.id)

(***************************************************************************)
(* C16.  PUT /products/{id}, a change of price included, leaves every line *)
(* item and every order row as it was; and the price stored in a line item *)
(* that POST /orders creates is the price of the request's item, whatever  *)
(* the current price of the product.                                       *)
(***************************************************************************)
C16_PriceSnapshot ==
  /\ \A id \in ProductIds : \A data \in ProductData :
       LET r == update_product(Store, id, data)
       IN r.store.order_details = order_details /\ r.store.orders = orders
  /\ \A data \in OrderData :
       LET r == create_order(Store, data)
       IN r.status = 201
          => \A d \in r.store.order_details \ order_details :
               \E i \in 1..Len(data.products) :
                 /\ d.product_id = data.products[i].product_id
                 /\ d.quantity = data.products[i].quantity
                 /\ d.price = data.products[i].price

\* A product's price was just changed while a line item of that product
\* keeps another price.
C16_Witness ==
  /\ last.op = "update_product" /\ last.status = 200 /\ last.changed
  /\ \E d \in order_details : \E p \in products :
       p.id = last.id /\ d.product_id = p.id /\ d.price # p.price

(***************************************************************************)
(* C17.  PUT /orders/{id} on an existing order, with a customer_id in the  *)
(* body: when no customer has that id the answer is 404 and nothing is     *)
(* changed; when the update succeeds the order's stored customer_id is the *)
(* id of the body and its stored total is the total of the body, not a sum *)
(* over line items.  A body that carries only a line-item list leaves the  *)
(* order's customer_id and total as they were.                             *)
(***************************************************************************)
C17_UpdateOrderCustomerAndTotal ==
  \A id \in OrderIds : \A data \in OrderData :
    OrderPresent(id)
    => LET r == update_order(Store, id, data)
       IN /\ ("customer_id" \in data.keys /\ ~CustomerPresent(data.customer_id))
               => (r.status = 404 /\ r.store = Store)
          /\ ("customer_id" \in data.keys /\ CustomerPresent(data.customer_id)
                /\ r.status = 200)
               => [id |-> id, customer_id |-> data.customer_id, total |-> data.total]
                    \in r.store.orders
          /\ data.keys = {"products"}
               => { o \in r.store.orders : o.id = id } = { o \in orders : o.id = id }

\* An order update with a customer_id just succeeded: the order is now the
\* second customer's and its total is the client's 500, which is not the
\* sum of its line items.
C17_Witness ==
  /\ last.op = "update_order" /\ last.status = 200 /\ last.changed
  /\ \E o \in orders :
       /\ o.id = last.id /\ o.customer_id = 2 /\ o.total = 500
       /\ LineItems(order_details, o.id) # {}
       /\ LineItemsSum(order_details, o.id) # o.total

(***************************************************************************)
(* C18.  When DELETE /products/{id} or DELETE /customers/{id} is served    *)
(* concurrently with POST /orders or PUT /orders/{id}, statement by        *)
(* statement, no committed state holds a line item whose product is absent *)
(* or an order whose customer is absent.  (Stated for the runs in which no *)
(* /init-sample-data is served, which deletes rows on its own.)            *)
(***************************************************************************)
C18_ConcurrentDeleteKeepsReferences ==
  (\A c \in Connections : conn[c].op # "init_sample_data")
  => /\ \A d \in order_details : ProductPresent(d.product_id)
     /\ \A o \in orders : CustomerPresent(o.customer_id)

(***************************************************************************)
(* C19.  When PUT /orders/{id} with line items is served concurrently with *)
(* DELETE /orders/{id}, no committed state after the deletion holds a line *)
(* item whose order_id is the id of the deleted order; and an update that  *)
(* reaches its INSERT of a line item after the deletion was committed      *)
(* raises, is answered 500 and commits nothing.                            *)
(***************************************************************************)
C19_ConcurrentUpdateAndDelete ==
  [][ /\ \A d \in Connections :
           ( /\ conn'[d].op = "delete_order" /\ conn'[d].pc = "done"
             /\ conn'[d].status = 200 )
           => \A x \in order_details' : x.order_id # conn'[d].id
      /\ \A c \in Connections :
           ( /\ conn[c].pc = "update_order_insert_detail"
             /\ conn'[c] # conn[c]
             /\ ~OrderPresent(conn[c].id) )
           => /\ conn'[c].pc = "done" /\ conn'[c].status = 500 /\ ~conn'[c].tx
              /\ Store' = Store ]_vars

\* The order was deleted by one request, and a concurrent update of it, which
\* had found the order, failed on the foreign key of its INSERT.
C19_Witness ==
  \E c \in Connections : \E d \in Connections :
    /\ conn[c].op = "update_order" /\ conn[c].pc = "done"
    /\ conn[c].status = 500 /\ conn[c].error = "FOREIGN KEY constraint failed"
    /\ conn[d].op = "delete_order" /\ conn[d].pc = "done" /\ conn[d].status = 200
    /\ conn[d].id = conn[c].id
    /\ ~OrderPresent(conn[c].id)

(***************************************************************************)
(* C20.  When a repair of a zero total (by GET /orders/{id} or by the      *)
(* batch repair) is served concurrently with an update that stores a       *)
(* nonzero total, the repair's write does not replace a committed nonzero  *)
(* total: a commit of a repairing request leaves every order whose         *)
(* committed total is not 0 with that total.                               *)
(***************************************************************************)
C20_RepairKeepsNonzeroTotal ==
  [][ \A c \in Connections :
        ( /\ conn[c].op \in {"get_order", "fix_orders_with_zero_total"}
          /\ conn[c].pc = "commit" /\ conn'[c].pc = "done" )
        => \A o \in orders : o.total # 0 => o \in orders' ]_vars

(***************************************************************************)
(* C21.  A POST /orders or PUT /orders/{id} whose second item lacks a      *)
(* required key and that is answered 500 leaves the store exactly as it    *)
(* was.  In particular a PUT /orders/{id} with a customer_id but no total, *)
(* and a POST /orders or PUT /orders/{id} whose second item lacks a key     *)
(* after the first item was written (the products that the items name all  *)
(* exist), are answered 500 and change no table.                           *)
(***************************************************************************)
C21_FailedWriteLeavesNoEffect ==
  /\ \A data \in MidwayFailureData :
       /\ LET r == create_order(Store, data)
          IN r.status = 500 => r.store = Store
       /\ \A id \in OrderIds :
            LET r == update_order(Store, id, data)
            IN r.status = 500 => r.store = Store
  /\ \A id \in OrderIds : \A data \in OrderData :
       ( /\ OrderPresent(id)
         /\ "customer_id" \in data.keys /\ "total" \notin data.keys
         /\ CustomerPresent(data.customer_id) )
       => LET r == update_order(Store, id, data)
          IN r.status = 500 /\ r.store = Store
  /\ \A data \in MidwayFailureData :
       (\A i \in 1..Len(data.products) :
          "product_id" \in data.products[i].keys
            => ProductPresent(data.products[i].product_id))
       => /\ ("customer_id" \in data.keys /\ CustomerPresent(data.customer_id))
               => LET r == create_order(Store, data)
                  IN r.status = 500 /\ r.store = Store
          /\ \A id \in OrderIds :
               ( /\ OrderPresent(id)
                 /\ "customer_id" \in data.keys
                      => ("total" \in data.keys /\ CustomerPresent(data.customer_id)) )
               => LET r == update_order(Store, id, data)
                  IN r.status = 500 /\ r.store = Store

\* An order update was just answered 500 and changed nothing, the order has
\* line items that the update would have deleted, and a body whose second
\* item has no price, sent to this order now, fails after its first item.
C21_Witness ==
  /\ last.op = "update_order" /\ last.status = 500 /\ ~last.changed
  /\ LineItems(order_details, last.id) # {}
  /\ \E data \in MidwayFailureData :
       /\ data.keys = {"products"}
       /\ "price" \notin data.products[2].keys
       /\ ProductPresent(data.products[1].product_id)
       /\ ProductPresent(data.products[2].product_id)
       /\ update_order(Store, last.id, data).status = 500

(***************************************************************************)
(* C22.  GET /orders/{id} changes the store only when the order exists,    *)
(* its stored total is 0 and its line items sum to a positive amount, and  *)
(* then nothing but that order's total changes.  In every other case the   *)
(* store after the retrieval is the store before it, and a retrieval that  *)
(* is answered 200 returns the stored total.                               *)
(***************************************************************************)
C22_GetOrderWritesOnlyWhenRepairing ==
  [][ last'.op = "get_order"
      => IF \E o \in orders : /\ o.id = last'.id /\ o.total = 0
                              /\ LineItemsSum(order_details, o.id) > 0
         THEN /\ { o \in orders' : o.id # last'.id } = { o \in orders : o.id # last'.id }
              /\ \A o \in orders : \E n \in orders' :
                   n.id = o.id /\ n.customer_id = o.customer_id
              /\ Cardinality(orders') = Cardinality(orders)
              /\ <<products, customers, order_details, sqlite_sequence>>'
                   = <<products, customers, order_details, sqlite_sequence>>
         ELSE /\ Store' = Store
              /\ OrderPresent(last'.id) <=> last'.status = 200
              /\ \A o \in orders : o.id = last'.id => last'.body.total = o.total ]_vars

\* An order whose nonzero stored total differs from the sum of its line
\* items was just retrieved: nothing was written and the stored total was
\* returned.
C22_Witness ==
  /\ last.op = "get_order" /\ last.status = 200 /\ ~last.changed
  /\ \E o \in orders :
       /\ o.id = last.id /\ o.total # 0 /\ last.body.total = o.total
       /\ LineItemsSum(order_details, o.id) > 0
       /\ LineItemsSum(order_details, o.id) # o.total

====
